---- MODULE Spec2Model ----
(***************************************************************************)
(* Model of the growth network of nenkin-simulation (src/network.rs,       *)
(* src/types.rs, src/core/mod.rs, src/networkbuilder.rs).                  *)
(*                                                                         *)
(* Option<T> is modelled as a sequence: None is << >>, Some(v) is <<v>>.   *)
(* Coordinates are small integers.  Site::distance is only ever compared   *)
(* with another distance, and sqrt is strictly increasing and exact enough *)
(* on these values, so the model compares the squared distances.           *)
(* f64 weights are counted in quarters.                                    *)
(***************************************************************************)
EXTENDS Integers, Sequences, FiniteSets, TLC

VARIABLES sites, graph, props, weights_cache, lifetime, pc, lastOp, args, ret,
          seeded, steps

\* The network and the record of the last call.
net == <<sites, graph, props, weights_cache, lifetime, pc, lastOp, args, ret>>

\* The history of the last seed, which no operation reads.
hist == <<seeded, steps>>

vars == <<net, hist>>

\* ------------------------------------------------------------------ bounds
MaxLifetime == 2
MaxCache == 2
MaxPathExtra == 1

\* ----------------------------------------------------------------- options
None == << >>
Some(v) == <<v>>
IsSome(o) == Len(o) = 1
Unwrap(o) == o[1]

\* ------------------------------------------------------------------- types
StateNone == [tag |-> "None", arg |-> 0]
Live(age) == [tag |-> "Live", arg |-> age]
Path(child_idx) == [tag |-> "Path", arg |-> child_idx]
Dead == [tag |-> "Dead", arg |-> 0]
Wall == [tag |-> "Wall", arg |-> 0]

Property(state, parent) == [state |-> state, parent |-> parent]

Site(x, y) == [x |-> x, y |-> y]

\* Site::distance, compared through its square (see the header).
distance(a, b) == (a.x - b.x) * (a.x - b.x) + (a.y - b.y) * (a.y - b.y)

\* Site::squared_distance, the metric of the kd-tree.
squared_distance(a, b) == (a.x - b.x) * (a.x - b.x) + (a.y - b.y) * (a.y - b.y)

\* ------------------------------------------------------------------ graphs
Indices(s) == 0 .. (Len(s) - 1)
SiteAt(s, i) == s[i + 1]

\* UndirectedGraph::new(n): n empty neighbor lists, indexed from 0.
NewGraph(n) == [i \in 0 .. (n - 1) |-> << >>]

\* UndirectedGraph::add_edge(a, b): each end is appended to the other's list,
\* so neighbors_of keeps the order in which the edges were added.
add_edge(g, a, b) == [g EXCEPT ![a] = Append(@, b), ![b] = Append(@, a)]

\* NetworkBuilder::build, the reduction of the triangle list to a graph: the
\* side (p, q) of a triangle is added only when p < q.
AddSide(g, p, q) == IF p < q THEN add_edge(g, p, q) ELSE g

AddTriangle(g, t) == AddSide(AddSide(AddSide(g, t[1], t[2]), t[2], t[3]), t[3], t[1])

RECURSIVE build_graph(_, _)
build_graph(g, triangles) ==
    IF triangles = << >> THEN g
    ELSE build_graph(AddTriangle(g, Head(triangles)), Tail(triangles))

RECURSIVE AddEdges(_, _)
AddEdges(g, edges) ==
    IF edges = << >> THEN g
    ELSE AddEdges(add_edge(g, Head(edges)[1], Head(edges)[2]), Tail(edges))

\* The networks handed to Network::new.
\* The line graph 0-1-2-3-4.
LineSites == <<Site(0, 0), Site(2, 0), Site(4, 0), Site(6, 0), Site(8, 0)>>
LineGraph == AddEdges(NewGraph(5), << <<0, 1>>, <<1, 2>>, <<2, 3>>, <<3, 4>> >>)

\* Three sites whose only triangle is listed as (0, 2, 1): build keeps the
\* side 0-2 and drops 2-1 and 1-0, so site 1 has no neighbor.
TriSites == <<Site(0, 0), Site(0, 2), Site(2, 0)>>
TriGraph == build_graph(NewGraph(3), << <<0, 2, 1>> >>)

\* Two sites joined by an edge.
PairSites == <<Site(0, 0), Site(2, 0)>>
PairGraph == AddEdges(NewGraph(2), << <<0, 1>> >>)

\* Three sites on the path 0-1-2 whose middle site is nearer to site 0 than
\* to site 2.
BentSites == <<Site(0, 0), Site(4, 0), Site(0, 2)>>
BentGraph == AddEdges(NewGraph(3), << <<0, 1>>, <<1, 2>> >>)

Networks == { <<LineSites, LineGraph>>, <<TriSites, TriGraph>> }

neighbors_of(idx) == graph[idx]

Adjacent(i, j) == \E k \in 1 .. Len(graph[i]) : graph[i][k] = j

\* ------------------------------------------------------------- kd-tree
\* ImmutableKdTree::nearest_one: a site of least squared distance to the
\* point; which one, among several at that distance, is not specified.
nearest_one(point) ==
    { i \in Indices(sites) :
        \A j \in Indices(sites) :
            squared_distance(SiteAt(sites, i), point) <= squared_distance(SiteAt(sites, j), point) }

\* The points the host passes: the positions of the sites 0 and 1 of
\* TriSites, the position (4, 0) of site 2 of LineSites, which is nearer to
\* site 2 of TriSites and to site 1 of PairSites than to their other sites,
\* and the point midway between the sites at (0, 0) and (2, 0).
Points == { Site(0, 0), Site(0, 2), Site(4, 0), Site(1, 0) }

\* ------------------------------------------------------------- automaton
\* Network::find_child: the first neighbor of idx, in neighbor order, whose
\* parent is idx.
RECURSIVE find_child_from(_, _, _)
find_child_from(p, idx, k) ==
    IF k > Len(neighbors_of(idx)) THEN None
    ELSE LET neighbor_idx == neighbors_of(idx)[k]
         IN  IF IsSome(p[neighbor_idx].parent) /\ Unwrap(p[neighbor_idx].parent) = idx
             THEN Some(neighbor_idx)
             ELSE find_child_from(p, idx, k + 1)

\* find_child with its scan left out: no site ever has a child.
find_child_nobody(p, idx) == None

\* find_child returning the last neighbor whose parent is idx, not the first.
find_child_last(p, idx) ==
    LET hits == { k \in 1 .. Len(neighbors_of(idx)) :
                    p[neighbors_of(idx)[k]].parent = Some(idx) }
    IN  IF hits = {} THEN None
        ELSE Some(neighbors_of(idx)[CHOOSE k \in hits : \A m \in hits : m <= k])

find_child(p, idx) == find_child_from(p, idx, 1)

\* The filter of the None arm letting through every neighbor that is not
\* None.
live_neighbors_not_none(p, idx) ==
    SelectSeq(neighbors_of(idx), LAMBDA neighbor_idx : p[neighbor_idx].state.tag # "None")

\* The filter of the None arm: the neighbors of idx that are Live, in order.
live_neighbors(p, idx) ==
    SelectSeq(neighbors_of(idx), LAMBDA neighbor_idx : p[neighbor_idx].state.tag = "Live")

\* The fold of the None arm: acc is kept only when the i-th neighbor is
\* strictly farther from the target site than acc.
RECURSIVE parent_fold(_, _, _, _)
parent_fold(idx, neighbors, i, acc) ==
    IF i > Len(neighbors) THEN acc
    ELSE parent_fold(idx, neighbors, i + 1,
            IF IsSome(acc)
               /\ distance(SiteAt(sites, idx), SiteAt(sites, neighbors[i]))
                    > distance(SiteAt(sites, idx), SiteAt(sites, Unwrap(acc)))
            THEN acc
            ELSE Some(neighbors[i]))

\* none_arm recording the site itself, not the chosen neighbor, as parent.
none_arm_own_index(p, idx) ==
    LET neighbors == live_neighbors(p, idx)
    IN  IF neighbors = << >>
        THEN Property(p[idx].state, p[idx].parent)
        ELSE Property(Live(0), Some(idx))

\* none_arm taking the last Live neighbor, whatever its distance.
none_arm_last_live(p, idx) ==
    LET neighbors == live_neighbors(p, idx)
    IN  IF neighbors = << >>
        THEN Property(p[idx].state, p[idx].parent)
        ELSE Property(Live(0), Some(neighbors[Len(neighbors)]))

none_arm(p, idx) ==
    LET neighbors == live_neighbors(p, idx)
    IN  IF neighbors = << >>
        THEN Property(p[idx].state, p[idx].parent)
        ELSE Property(Live(0), parent_fold(idx, neighbors, 1, None))

\* live_arm comparing with > where the code has >=: a site resolves one step
\* late.
live_arm_late(p, idx, life) ==
    LET new_age == p[idx].state.arg + 1
        child == find_child(p, idx)
    IN  IF new_age > life
        THEN IF IsSome(child)
             THEN Property(Path(Unwrap(child)), p[idx].parent)
             ELSE Property(Dead, None)
        ELSE Property(Live(new_age), p[idx].parent)

\* live_arm keeping the old age in the arm that ages.
live_arm_same_age(p, idx, life) ==
    LET new_age == p[idx].state.arg + 1
        child == find_child(p, idx)
    IN  IF new_age >= life
        THEN IF IsSome(child)
             THEN Property(Path(Unwrap(child)), p[idx].parent)
             ELSE Property(Dead, None)
        ELSE Property(Live(p[idx].state.arg), p[idx].parent)

\* live_arm leaving the parent in place on a site that dies.
live_arm_dead_keeps_parent(p, idx, life) ==
    LET new_age == p[idx].state.arg + 1
        child == find_child(p, idx)
    IN  IF new_age >= life
        THEN IF IsSome(child)
             THEN Property(Path(Unwrap(child)), p[idx].parent)
             ELSE Property(Dead, p[idx].parent)
        ELSE Property(Live(new_age), p[idx].parent)

live_arm(p, idx, life) ==
    LET new_age == p[idx].state.arg + 1
        child == find_child(p, idx)
    IN  IF new_age >= life
        THEN IF IsSome(child)
             THEN Property(Path(Unwrap(child)), p[idx].parent)
             ELSE Property(Dead, None)
        ELSE Property(Live(new_age), p[idx].parent)

\* path_arm keeping a Path site as it is, with or without a child.
path_arm_keep(p, idx) == Property(p[idx].state, p[idx].parent)

path_arm(p, idx) ==
    LET child_idx == p[idx].state.arg
        child == find_child(p, idx)
    IN  IF IsSome(p[child_idx].parent) /\ Unwrap(p[child_idx].parent) = idx
        THEN Property(p[idx].state, p[idx].parent)
        ELSE IF IsSome(child)
             THEN Property(Path(Unwrap(child)), p[idx].parent)
             ELSE Property(Dead, None)

\* The Dead arm handing the site back as None.
dead_arm_none(p, idx) == Property(StateNone, None)

dead_arm(p, idx) == Property(Dead, None)

\* The Wall arm returning what the Dead arm returns.
wall_arm_dead(p, idx) == Property(Dead, None)

wall_arm(p, idx) == Property(Wall, None)

calculate_next_prop(p, idx, life) ==
    CASE p[idx].state.tag = "None" -> none_arm(p, idx)
      [] p[idx].state.tag = "Live" -> live_arm(p, idx, life)
      [] p[idx].state.tag = "Path" -> path_arm(p, idx)
      [] p[idx].state.tag = "Dead" -> dead_arm(p, idx)
      [] p[idx].state.tag = "Wall" -> wall_arm(p, idx)

\* The whole array after one performed step, from the snapshot p.
next_props(p, life) == [idx \in DOMAIN p |-> calculate_next_prop(p, idx, life)]

\* ------------------------------------------------------------ path search
\* One pass of the for_each of seartch_path: min_index after the neighbors
\* of cur from the k-th on, min being the best neighbor so far.  min_dist_to
\* starts at f64::MAX, above every distance, so the first neighbor is always
\* taken; afterwards only a strictly nearer one replaces it.
RECURSIVE min_index_from(_, _, _, _)
min_index_from(cur, target, k, min) ==
    IF k > Len(neighbors_of(cur)) THEN min
    ELSE LET neighbor == neighbors_of(cur)[k]
             dist_to == distance(SiteAt(sites, neighbor), SiteAt(sites, target))
         IN  min_index_from(cur, target, k + 1,
                IF min = None
                   \/ distance(SiteAt(sites, Unwrap(min)), SiteAt(sites, target)) > dist_to
                THEN Some(neighbor)
                ELSE min)

\* min_index taking the first neighbor whatever its distance to the target.
min_index_first(cur, target) ==
    IF neighbors_of(cur) = << >> THEN None ELSE Some(neighbors_of(cur)[1])

min_index(cur, target) == min_index_from(cur, target, 1, None)

\* The longest path the model follows: MaxPathExtra sites more than a walk
\* that visits no site twice can hold.
MaxPath == Len(sites) + MaxPathExtra

\* The while loop of seartch_path from the state (cur, walk).  It returns
\* Some(path) at the target and None at a site without neighbors.  The third
\* outcome, "unfinished", is a walk still short of the target after MaxPath
\* sites: it has been at some site twice, and since a move depends on the
\* current site and the target only, it repeats for ever.
RECURSIVE seartch_path_loop(_, _, _)
seartch_path_loop(cur, target, walk) ==
    IF cur = target THEN [kind |-> "Some", path |-> walk]
    ELSE LET min == min_index(cur, target)
         IN  IF min = None THEN [kind |-> "None", path |-> walk]
             ELSE IF Len(walk) >= MaxPath THEN [kind |-> "unfinished", path |-> walk]
             ELSE seartch_path_loop(Unwrap(min), target, Append(walk, Unwrap(min)))

seartch_path(src, target) == seartch_path_loop(src, target, <<src>>)

\* walled sparing the sites that are Live.
walled_unless_live(p, walk) ==
    [idx \in DOMAIN p |->
        IF (\E k \in 1 .. Len(walk) : walk[k] = idx) /\ p[idx].state.tag # "Live"
        THEN Property(Wall, None)
        ELSE p[idx]]

\* Every site of the path set to Wall, parent cleared.
walled(p, walk) ==
    [idx \in DOMAIN p |->
        IF \E k \in 1 .. Len(walk) : walk[k] = idx THEN Property(Wall, None) ELSE p[idx]]

\* ------------------------------------------------------------------ cache
NumericProperty(n, l, pa, d, w) ==
    [state_none |-> n, state_live |-> l, state_path |-> pa, state_dead |-> d, state_wall |-> w]

\* impl From<Property> for NumericProperty
FromProperty(prop) ==
    NumericProperty(IF prop.state.tag = "None" THEN 1 ELSE 0,
                    IF prop.state.tag = "Live" THEN 1 ELSE 0,
                    IF prop.state.tag = "Path" THEN 1 ELSE 0,
                    IF prop.state.tag = "Dead" THEN 1 ELSE 0,
                    IF prop.state.tag = "Wall" THEN 1 ELSE 0)

add(a, b) ==
    NumericProperty(a.state_none + b.state_none, a.state_live + b.state_live,
                    a.state_path + b.state_path, a.state_dead + b.state_dead,
                    a.state_wall + b.state_wall)

\* mul_scala leaving the weight out.
mul_scala_unscaled(a, other) == a

mul_scala(a, other) ==
    NumericProperty(a.state_none * other, a.state_live * other, a.state_path * other,
                    a.state_dead * other, a.state_wall * other)

\* The fold of get_property over the weight list, from its k-th pair on.
RECURSIVE blend_from(_, _, _, _)
blend_from(p, weights, k, acc) ==
    IF k > Len(weights) THEN acc
    ELSE LET x == mul_scala(FromProperty(p[weights[k][1]]), weights[k][2])
         IN  blend_from(p, weights, k + 1,
                        IF IsSome(acc) THEN Some(add(Unwrap(acc), x)) ELSE Some(x))

get_property(p, cache, key) ==
    IF IsSome(cache[key + 1]) THEN blend_from(p, Unwrap(cache[key + 1]), 1, None) ELSE None

\* Interpolator::query_weights, the external weight query: no coverage, or a
\* list of (site, weight) pairs; weights are in quarters.
query_weights(point) ==
    { None, Some(<< >>), Some(<< <<0, 1>>, <<1, 3>> >>) }

\* ------------------------------------------------------------ operations
\* lastOp is the operation called last, args the sites, number or key it
\* worked on (for set_start the nearest site, for set_wall the two nearest
\* sites, prev_nearest first) and ret what it returned (for set_wall, which
\* returns nothing, what its seartch_path returned: "Some" or "None").  pc is "idle" between calls and "seartch_path" once a call of
\* set_wall is in a path search that does not end.
Idle == pc = "idle"

\* Network::new(sites, graph) on one of the networks nws.
new(nws) ==
    /\ \E nw \in nws : sites = nw[1] /\ graph = nw[2]
    /\ props = [idx \in Indices(sites) |-> Property(StateNone, None)]
    /\ weights_cache = << >>
    /\ lifetime = None
    /\ pc = "idle"
    /\ lastOp = "new"
    /\ args = << >>
    /\ ret = None

\* set_start clearing every other site, as a reset would.
set_start_reset(point) ==
    /\ Idle
    /\ \E nearest \in nearest_one(point) :
          /\ props' = [idx \in DOMAIN props |->
                        IF idx = nearest THEN Property(Live(0), None)
                        ELSE Property(StateNone, None)]
          /\ args' = <<nearest>>
    /\ lastOp' = "set_start"
    /\ ret' = None
    /\ UNCHANGED <<sites, graph, weights_cache, lifetime, pc>>

\* Network::set_start
\* set_start leaving a Wall site as it is.
set_start_keeps_wall(point) ==
    /\ Idle
    /\ \E nearest \in nearest_one(point) :
          /\ props' = IF props[nearest].state = Wall THEN props
                      ELSE [props EXCEPT ![nearest] = Property(Live(0), None)]
          /\ args' = <<nearest>>
    /\ lastOp' = "set_start"
    /\ ret' = None
    /\ UNCHANGED <<sites, graph, weights_cache, lifetime, pc>>

set_start(point) ==
    /\ Idle
    /\ \E nearest \in nearest_one(point) :
          /\ props' = [props EXCEPT ![nearest] = Property(Live(0), None)]
          /\ args' = <<nearest>>
    /\ lastOp' = "set_start"
    /\ ret' = None
    /\ UNCHANGED <<sites, graph, weights_cache, lifetime, pc>>

\* Network::set_lifetime
set_lifetime(n) ==
    /\ Idle
    /\ lifetime' = Some(n)
    /\ lastOp' = "set_lifetime"
    /\ args' = <<n>>
    /\ ret' = None
    /\ UNCHANGED <<sites, graph, props, weights_cache, pc>>

\* iterate stepping with lifetime 0 when the lifetime is unset.
iterate_unset_default ==
    /\ Idle
    /\ lifetime = None
    /\ props' = next_props(props, 0)
    /\ lastOp' = "iterate"
    /\ args' = << >>
    /\ ret' = Some(FALSE)
    /\ UNCHANGED <<sites, graph, weights_cache, lifetime, pc>>

\* Network::iterate with the lifetime unset: returns false.
iterate_unset ==
    /\ Idle
    /\ lifetime = None
    /\ lastOp' = "iterate"
    /\ args' = << >>
    /\ ret' = Some(FALSE)
    /\ UNCHANGED <<sites, graph, props, weights_cache, lifetime, pc>>

\* Network::iterate with the lifetime set: one synchronous step, returns true.
iterate_set ==
    /\ Idle
    /\ IsSome(lifetime)
    /\ props' = next_props(props, Unwrap(lifetime))
    /\ lastOp' = "iterate"
    /\ args' = << >>
    /\ ret' = Some(TRUE)
    /\ UNCHANGED <<sites, graph, weights_cache, lifetime, pc>>

\* Network::set_wall between the sites prev_nearest and nearest.
set_wall_between(prev_nearest, nearest) ==
    LET found == seartch_path(prev_nearest, nearest)
    IN  /\ Idle
        /\ lastOp' = "set_wall"
        /\ args' = <<prev_nearest, nearest>>
        /\ CASE found.kind = "Some" ->
                  /\ props' = walled(props, found.path)
                  /\ pc' = pc
                  /\ ret' = Some("Some")
             [] found.kind = "None" ->
                  /\ props' = props
                  /\ pc' = pc
                  /\ ret' = Some("None")
             [] found.kind = "unfinished" ->
                  /\ props' = props
                  /\ pc' = "seartch_path"
                  /\ ret' = None
        /\ UNCHANGED <<sites, graph, weights_cache, lifetime>>

\* Network::set_wall
set_wall(point, prev_point) ==
    \E nearest \in nearest_one(point), prev_nearest \in nearest_one(prev_point) :
        set_wall_between(prev_nearest, nearest)

\* Network::add_cache
\* add_cache returning the length of the cache, one more than the index of
\* the entry it pushed.
add_cache_returns_len(point) ==
    /\ Idle
    /\ Len(weights_cache) < MaxCache
    /\ \E weights \in query_weights(point) : weights_cache' = Append(weights_cache, weights)
    /\ lastOp' = "add_cache"
    /\ args' = << >>
    /\ ret' = Some(Len(weights_cache'))
    /\ UNCHANGED <<sites, graph, props, lifetime, pc>>

add_cache(point) ==
    /\ Idle
    /\ Len(weights_cache) < MaxCache
    /\ \E weights \in query_weights(point) : weights_cache' = Append(weights_cache, weights)
    /\ lastOp' = "add_cache"
    /\ args' = << >>
    /\ ret' = Some(Len(weights_cache') - 1)
    /\ UNCHANGED <<sites, graph, props, lifetime, pc>>

\* Network::get_property, called with a key add_cache returned.
get_property_call(key) ==
    /\ Idle
    /\ lastOp' = "get_property"
    /\ args' = <<key>>
    /\ ret' = Some(get_property(props, weights_cache, key))
    /\ UNCHANGED <<sites, graph, props, weights_cache, lifetime, pc>>

\* Every operation, on every network.  The history of the last seed is not
\* kept.
Init == new(Networks) /\ seeded = None /\ steps = 0

Next ==
    \/ \E point \in Points : set_start(point) /\ UNCHANGED hist
    \/ \E n \in 0 .. MaxLifetime : set_lifetime(n) /\ UNCHANGED hist
    \/ iterate_unset /\ UNCHANGED hist
    \/ iterate_set /\ UNCHANGED hist
    \/ \E point \in Points, prev_point \in Points : set_wall(point, prev_point) /\ UNCHANGED hist
    \/ \E point \in Points : add_cache(point) /\ UNCHANGED hist
    \/ \E key \in 0 .. (Len(weights_cache) - 1) : get_property_call(key) /\ UNCHANGED hist

Spec == Init /\ [][Next]_vars

\* The automaton alone, on every network.  add_cache and get_property write
\* neither props nor lifetime nor pc, so the automaton goes through the same
\* states with them as without.
NetNext ==
    \/ \E point \in Points : set_start(point) /\ UNCHANGED hist
    \/ \E n \in 0 .. MaxLifetime : set_lifetime(n) /\ UNCHANGED hist
    \/ iterate_unset /\ UNCHANGED hist
    \/ iterate_set /\ UNCHANGED hist
    \/ \E point \in Points, prev_point \in Points : set_wall(point, prev_point) /\ UNCHANGED hist

NetSpec == Init /\ [][NetNext]_vars

\* The automaton on the networks above and on the bent path, where the
\* neighbors of a site are at different distances.
GrowInit == new(Networks \cup { <<BentSites, BentGraph>> }) /\ seeded = None /\ steps = 0

GrowSpec == GrowInit /\ [][NetNext]_vars

\* The automaton whose host does not stop stepping: a performed step that
\* would change something is not put off for ever.
StepSpec == Init /\ [][NetNext]_vars /\ WF_vars(iterate_set /\ UNCHANGED hist)

\* Every operation, on the network of two sites.
CacheInit == new({ <<PairSites, PairGraph>> }) /\ seeded = None /\ steps = 0

CacheSpec == CacheInit /\ [][Next]_vars

\* The automaton with the history of the last seed: seeded is the site the
\* last set_start wrote, and steps the number of steps performed since, for
\* as long as the lifetime did not change between those steps and set_wall
\* did not write the site; steps stops counting above MaxLifetime.
Forget == seeded' = None /\ steps' = 0

SeedNext ==
    \/ \E point \in Points :
          /\ set_start(point)
          /\ seeded' = Some(args'[1])
          /\ steps' = 0
    \/ \E n \in 0 .. MaxLifetime :
          /\ set_lifetime(n)
          /\ IF steps > 0 /\ lifetime # Some(n) THEN Forget ELSE UNCHANGED hist
    \/ iterate_unset /\ UNCHANGED hist
    \/ /\ iterate_set
       /\ steps' = IF IsSome(seeded) /\ steps <= MaxLifetime THEN steps + 1 ELSE steps
       /\ seeded' = seeded
    \/ \E point \in Points, prev_point \in Points :
          /\ set_wall(point, prev_point)
          /\ IF IsSome(seeded) /\ props'[Unwrap(seeded)].state = Wall
             THEN Forget
             ELSE UNCHANGED hist

SeedSpec == Init /\ [][SeedNext]_vars

\* ------------------------------------------------------------------ claims
Sites == Indices(sites)

IsLine == sites = LineSites /\ graph = LineGraph

\* The props of the line network, site by site.
LineProps(p0, p1, p2, p3, p4) ==
    [idx \in 0 .. 4 |-> CASE idx = 0 -> p0 [] idx = 1 -> p1 [] idx = 2 -> p2
                          [] idx = 3 -> p3 [] idx = 4 -> p4]

Dormant == Property(StateNone, None)

LineStart == LineProps(Dormant, Dormant, Dormant, Dormant, Dormant)

LineSeeded == LineProps(Property(Live(0), None), Dormant, Dormant, Dormant, Dormant)

LineStep1 ==
    LineProps(Property(Live(1), None), Property(Live(0), Some(0)), Dormant, Dormant, Dormant)

LineStep2 ==
    LineProps(Property(Path(1), None), Property(Live(1), Some(0)),
              Property(Live(0), Some(1)), Dormant, Dormant)

\* C1: on the line graph 0-1-2-3-4 with lifetime 2, seeding site 0 of the
\* all-None network and stepping twice gives exactly
\* [Live(1)/none, Live(0)/0, None, None, None] after the first step and
\* [Path(1)/none, Live(1)/0, Live(0)/1, None, None] after the second.
C1_LineScenario ==
    [][ IsLine =>
          /\ (props = LineStart /\ props'[0].state = Live(0) /\ lastOp' = "set_start")
                => props' = LineSeeded
          /\ (lifetime = Some(2) /\ iterate_set /\ props = LineSeeded) => props' = LineStep1
          /\ (lifetime = Some(2) /\ iterate_set /\ props = LineStep1) => props' = LineStep2
      ]_vars

C1_Witness ==
    IsLine /\ lifetime = Some(2) /\ lastOp = "iterate" /\ ret = Some(TRUE) /\ props = LineStep2

\* C2: every call returns, the path search of set_wall included: no call of
\* set_wall stays in seartch_path for ever.
C2_EveryCallReturns == pc = "idle"

\* C3 as claimed: after set_start exactly one site is Live(0).
C3_ExactlyOneLive0 ==
    lastOp = "set_start" => Cardinality({ i \in Sites : props[i].state = Live(0) }) = 1

\* C3, amended: set_start makes the site nearest to the point Live(0) with
\* no parent and leaves the state and parent of every other site as they
\* were; sites that were Live(0) before stay so, so one or more sites are
\* Live(0).
C3_SeedWritesOneSite ==
    [][ lastOp' = "set_start" =>
          LET nearest == args'[1]
          IN  /\ \E point \in Points : nearest \in nearest_one(point)
              /\ props'[nearest] = Property(Live(0), None)
              /\ \A i \in Sites \ {nearest} : props'[i] = props[i]
      ]_vars

C3_Witness ==
    /\ lastOp = "set_start"
    /\ Cardinality({ i \in Sites : props[i].state = Live(0) }) >= 2
    /\ \E i \in Sites : props[i].state.tag = "Wall"

\* C4: a performed step leaves every Wall site Wall with the parent it had,
\* whatever the lifetime and the neighbors, and the parent it gives a site
\* that turns from None to Live is not a Wall site, before or after the step.
C4_WallFixed ==
    [][ iterate_set =>
          /\ \A i \in Sites : props[i].state = Wall => props'[i] = props[i]
          /\ \A i \in Sites :
                (props[i].state = StateNone /\ props'[i].state.tag = "Live") =>
                    /\ IsSome(props'[i].parent)
                    /\ props[Unwrap(props'[i].parent)].state # Wall
                    /\ props'[Unwrap(props'[i].parent)].state # Wall
      ]_vars

C4_Witness ==
    /\ lastOp = "iterate" /\ ret = Some(TRUE)
    /\ \E i, j \in Sites :
          /\ Adjacent(i, j)
          /\ props[i].state = Wall
          /\ props[j].state = Live(0)
          /\ IsSome(props[j].parent)

\* C5: in a performed step with lifetime L a site that is Live(a) becomes
\* Live(a + 1) with the same parent when a + 1 < L, and otherwise Path or
\* Dead, never Live.
C5_LiveAges ==
    [][ iterate_set =>
          \A i \in Sites :
              props[i].state.tag = "Live" =>
                  IF props[i].state.arg + 1 < Unwrap(lifetime)
                  THEN props'[i] = Property(Live(props[i].state.arg + 1), props[i].parent)
                  ELSE props'[i].state.tag \in {"Path", "Dead"}
      ]_vars

C5_Witness ==
    /\ lastOp = "iterate" /\ ret = Some(TRUE)
    /\ \E i, j \in Sites :
          /\ props[i].state = Live(1)
          /\ props[j].state.tag = "Path"

Isolated(i) == neighbors_of(i) = << >>

\* C6 as claimed: an isolated site that was seeded is Dead once as many
\* steps were performed as the lifetime says, for every lifetime.
C6_DeadAfterLifetimeSteps ==
    \A i \in Sites :
        (Isolated(i) /\ seeded = Some(i) /\ IsSome(lifetime) /\ steps = Unwrap(lifetime))
            => props[i].state = Dead

\* C6, amended: an isolated site is never Path; seeded, with lifetime
\* n >= 1 it is Live(k) after k < n steps and Dead after n steps and after
\* every later one; with lifetime 0 it is Dead after one step, not after none.
C6_IsolatedDies ==
    \A i \in Sites :
        Isolated(i) =>
            /\ props[i].state.tag # "Path"
            /\ (seeded = Some(i) /\ IsSome(lifetime)) =>
                  IF steps >= Unwrap(lifetime) /\ steps >= 1
                  THEN props[i].state = Dead
                  ELSE (steps >= 1 => props[i].state = Live(steps))

C6_Witness ==
    \E i \in Sites :
        /\ Isolated(i)
        /\ seeded = Some(i)
        /\ lifetime = Some(MaxLifetime)
        /\ steps = MaxLifetime
        /\ props[i].state = Dead

\* C7: iterate called with the lifetime unset returns false and leaves props,
\* the cache and the lifetime as they were; called with the lifetime set it
\* returns true.
C7_StepNeedsLifetime ==
    [][ (iterate_unset \/ iterate_set) =>
          /\ lifetime = None =>
                (ret' = Some(FALSE) /\ UNCHANGED <<props, weights_cache, lifetime>>)
          /\ lifetime # None => ret' = Some(TRUE)
      ]_vars

C7_Witness ==
    /\ lastOp = "iterate" /\ ret = Some(FALSE)
    /\ lifetime = None
    /\ weights_cache # << >>
    /\ \E i, j \in Sites : props[i].state = Live(0) /\ props[j].state = Wall

WallOver(p, set) ==
    [idx \in DOMAIN p |-> IF idx \in set THEN Property(Wall, None) ELSE p[idx]]

\* C8: set_wall between two distinct adjacent sites a and b makes a and b
\* Wall with no parent and changes no other site.
C8_AdjacentWall ==
    [][ lastOp' = "set_wall" =>
          LET a == args'[1]
              b == args'[2]
          IN  (a # b /\ Adjacent(a, b)) =>
                  (ret' = Some("Some") /\ props' = WallOver(props, {a, b}))
      ]_vars

C8_Witness ==
    /\ lastOp = "set_wall" /\ ret = Some("Some")
    /\ \E a, b \in Sites :
          /\ a # b /\ Adjacent(a, b)
          /\ { i \in Sites : props[i].state = Wall } = {a, b}
          /\ \E i \in Sites : props[i].state.tag = "Live"

\* The sites of a sequence.
Range(walk) == { walk[k] : k \in 1 .. Len(walk) }

\* C9: a set_wall whose path search reports no path changes no state and no
\* parent; one whose search finds a path makes every site of the path, both
\* ends included, Wall with no parent whatever it was, and changes no site
\* off the path.
C9_WallFollowsPath ==
    [][ lastOp' = "set_wall" =>
          LET a == args'[1]
              b == args'[2]
              found == seartch_path(a, b)
          IN  /\ found.kind = "None" =>
                    (Isolated(a) /\ a # b /\ ret' = Some("None") /\ props' = props)
              /\ found.kind = "Some" =>
                    /\ {a, b} \subseteq Range(found.path)
                    /\ ret' = Some("Some")
                    /\ props' = WallOver(props, Range(found.path))
      ]_vars

C9_Witness ==
    /\ lastOp = "set_wall" /\ ret = Some("None")
    /\ \E i, j \in Sites : props[i].state.tag = "Live" /\ props[j].state = Wall

\* C10: in every reachable state a site's parent, when it has one, is one of
\* its neighbors in the graph.
C10_ParentIsNeighbor ==
    \A i \in Sites : IsSome(props[i].parent) => Adjacent(i, Unwrap(props[i].parent))

C10_Witness ==
    \E i, j \in Sites :
        /\ i # j
        /\ IsSome(props[i].parent) /\ props[i].state.tag = "Live"
        /\ IsSome(props[j].parent) /\ props[j].state.tag = "Path"

\* C11 as claimed: in every reachable state a site has no parent when it is
\* None, Dead or Wall, and has one when it is Live or Path.
C11_ParentIffLiveOrPath ==
    \A i \in Sites :
        IF props[i].state.tag \in {"None", "Dead", "Wall"}
        THEN props[i].parent = None
        ELSE IsSome(props[i].parent)

\* C11: in every reachable state a site that is None, Dead or Wall has no
\* parent; a site with a parent is Live or Path, and a Live or Path site may
\* have none (set_start writes Live(0) without a parent, and the steps that
\* age the site or turn it into Path keep it without one).
C11_NoParentUnlessLiveOrPath ==
    \A i \in Sites :
        props[i].state.tag \in {"None", "Dead", "Wall"} => props[i].parent = None

C11_Witness ==
    /\ lastOp = "iterate" /\ ret = Some(TRUE)
    /\ \E i, j, k \in Sites :
          /\ props[i].state = Dead
          /\ props[j].state.tag = "Path" /\ props[j].parent = None
          /\ props[k].state.tag = "Live" /\ IsSome(props[k].parent)

\* The sites of S are None in p and every neighbor they have outside S is
\* Wall in p.
Enclosed(p, S) ==
    \A i \in S :
        /\ p[i].state = StateNone
        /\ \A k \in 1 .. Len(neighbors_of(i)) :
              neighbors_of(i)[k] \notin S => p[neighbors_of(i)[k]].state = Wall

\* C12: growth does not pass walls.  When the sites of a set S are None and
\* every neighbor of theirs outside S is Wall, a step leaves S so: every site
\* of S is still None and still has only Wall neighbors outside S, hence the
\* same after any number of steps.
C12_WallsEnclose ==
    [][ iterate_set =>
          \A S \in SUBSET Sites : Enclosed(props, S) => Enclosed(props', S) ]_vars

C12_Witness ==
    /\ lastOp = "iterate" /\ ret = Some(TRUE)
    /\ \E S \in SUBSET Sites :
          /\ Enclosed(props, S)
          /\ \E i \in S, w \in Sites \ S, k \in Sites \ S :
                /\ Adjacent(i, w) /\ Adjacent(w, k)
                /\ props[w].state = Wall
                /\ props[k].state.tag = "Live" /\ props[k].state.arg >= 1

\* The sum of the weights of the pairs of the list weights whose site is in
\* the state variant tag in p.
RECURSIVE WeightOn(_, _, _)
WeightOn(p, weights, tag) ==
    IF weights = << >> THEN 0
    ELSE (IF p[Head(weights)[1]].state.tag = tag THEN Head(weights)[2] ELSE 0)
         + WeightOn(p, Tail(weights), tag)

\* C13: get_property(key) blends the weight list stored under key with the
\* states the sites have at the call: it returns nothing exactly when the
\* stored entry is no coverage or an empty list, and otherwise five numbers,
\* each the sum of the stored weights of the listed sites that are in that
\* state variant now.
C13_SampleBlendsStoredWeights ==
    [][ lastOp' = "get_property" =>
          LET entry == weights_cache'[args'[1] + 1]
          IN  IF entry = None \/ Unwrap(entry) = << >>
              THEN ret' = Some(None)
              ELSE ret' = Some(Some(
                     NumericProperty(WeightOn(props', Unwrap(entry), "None"),
                                     WeightOn(props', Unwrap(entry), "Live"),
                                     WeightOn(props', Unwrap(entry), "Path"),
                                     WeightOn(props', Unwrap(entry), "Dead"),
                                     WeightOn(props', Unwrap(entry), "Wall")))) ]_vars

\* A sample taken after steps, of a list whose two sites are in different
\* states, one of them Path.
C13_Witness ==
    /\ lastOp = "get_property"
    /\ IsSome(ret) /\ IsSome(Unwrap(ret))
    /\ Unwrap(Unwrap(ret)).state_path = 1
    /\ Unwrap(Unwrap(ret)).state_live = 3

\* C14: the cache is append-only.  No step of any operation removes an entry
\* or changes the entry under a key that exists; add_cache adds one entry and
\* returns its key, the number of entries there were before, so the k-th call
\* (from 0) returns k, above every key returned earlier.
C14_CacheAppendOnly ==
    [][ /\ Len(weights_cache') >= Len(weights_cache)
        /\ \A k \in 1 .. Len(weights_cache) : weights_cache'[k] = weights_cache[k]
        /\ IF weights_cache' # weights_cache
           THEN /\ lastOp' = "add_cache"
                /\ Len(weights_cache') = Len(weights_cache) + 1
                /\ ret' = Some(Len(weights_cache))
           ELSE lastOp' = "add_cache" => lastOp = "add_cache" /\ ret' = ret ]_vars

\* The second add_cache has returned key 1 and the two entries differ, in a
\* network that has been seeded, stepped and walled.
C14_Witness ==
    /\ lastOp = "add_cache" /\ ret = Some(1)
    /\ Len(weights_cache) = 2
    /\ weights_cache[1] # weights_cache[2]
    /\ \E i \in Sites : props[i].state.tag \in {"Path", "Dead"}
    /\ \E i \in Sites : props[i].state = Wall

\* The positions, in the neighbor list of i, of the neighbors that are Live
\* in p.
LivePositions(p, i) ==
    { k \in 1 .. Len(neighbors_of(i)) : p[neighbors_of(i)[k]].state.tag = "Live" }

DistanceTo(i, k) == distance(SiteAt(sites, i), SiteAt(sites, neighbors_of(i)[k]))

\* C16: a step turns a None site i that has a Live neighbor into Live(0) with
\* as parent a neighbor that was Live before the step, at the least distance
\* from i among those, and the last in i's neighbor order among the ones at
\* that distance; a None site without a Live neighbor stays None without a
\* parent.
C16_ParentIsNearestLatest ==
    [][ iterate_set =>
          \A i \in Sites :
              props[i].state = StateNone =>
                  IF LivePositions(props, i) = {}
                  THEN props'[i] = Property(StateNone, None)
                  ELSE /\ props'[i].state = Live(0)
                       /\ \E k \in LivePositions(props, i) :
                             /\ props'[i].parent = Some(neighbors_of(i)[k])
                             /\ \A m \in LivePositions(props, i) :
                                   /\ DistanceTo(i, k) <= DistanceTo(i, m)
                                   /\ DistanceTo(i, m) = DistanceTo(i, k) => m <= k ]_vars

\* Site 1 of the line network, between the sites 0 and 2 that were both
\* Live(0) a step ago and are at the same distance, has taken site 2, the
\* later of its neighbors, as parent.
C16_Witness ==
    /\ IsLine
    /\ lastOp = "iterate" /\ ret = Some(TRUE)
    /\ props[0] = Property(Live(1), None)
    /\ props[2] = Property(Live(1), None)
    /\ props[1] = Property(Live(0), Some(2))
    /\ props[4] = Property(StateNone, None)

\* The positions, in the neighbor list of i, of the neighbors whose parent
\* in p is i.
ChildPositions(p, i) ==
    { k \in 1 .. Len(neighbors_of(i)) : p[neighbors_of(i)[k]].parent = Some(i) }

\* Site i, in q, is Path to the first neighbor whose parent in p is i,
\* or Dead without a parent when there is none.
FirstChildOrDead(p, q, i) ==
    IF ChildPositions(p, i) = {}
    THEN q[i] = Property(Dead, None)
    ELSE q[i].state =
           Path(neighbors_of(i)[CHOOSE k \in ChildPositions(p, i) :
                                   \A m \in ChildPositions(p, i) : k <= m])

C18_SeedOverwrites ==
    [][ lastOp' = "set_start" =>
          /\ \E point \in Points : args'[1] \in nearest_one(point)
          /\ props'[args'[1]] = Property(Live(0), None)
          /\ lifetime' = lifetime
          /\ weights_cache' = weights_cache ]_vars

\* A site that a neighbor has as parent, so one that was Live or Path at
\* least a step ago, is Live(0) again without a parent, with a lifetime
\* set and an entry in the cache.
C18_Witness ==
    /\ lastOp = "set_start"
    /\ props[args[1]] = Property(Live(0), None)
    /\ \E j \in Sites : props[j].parent = Some(args[1])
    /\ IsSome(lifetime)
    /\ weights_cache # << >>

\* No site is Live or Path.
Quiet == \A i \in Sites : props[i].state.tag \in {"None", "Dead", "Wall"}

\* C19: eventual quiescence.  A behavior that, from some state on, has a
\* lifetime set, is between calls and takes only steps, reaches a state from
\* which no site is Live or Path any more; and a step performed when no site
\* is Live or Path changes no site.
C19_EventuallyQuiet ==
    /\ (<>[][iterate_set /\ UNCHANGED hist]_vars /\ <>[](Idle /\ IsSome(lifetime)))
          => <>[]Quiet
    /\ [][ (Quiet /\ iterate_set) => props' = props ]_vars

\* A network that has grown and died out: a step has left it without a Live
\* or Path site, with Dead sites that had been reached by growth.
C19_Witness ==
    /\ lastOp = "iterate" /\ ret = Some(TRUE)
    /\ Quiet
    /\ \E i, j \in Sites : i # j /\ props[i].state = Dead /\ props[j].state = Dead
    /\ \A i \in Sites : ~Isolated(i) => props[i].state # StateNone

\* C20: under steps the state of a site goes one way.  A step never makes a
\* site None that was not, never makes a Path, Dead or Wall site Live, keeps
\* a Dead site Dead, and gives a site a new parent only when it turns the
\* site from None to Live; and in every reachable state the child of a Path
\* site is one of its neighbors.
C20_OneWay ==
    /\ [][ iterate_set =>
             \A i \in Sites :
                 /\ props[i].state # StateNone => props'[i].state # StateNone
                 /\ props[i].state.tag \in {"Path", "Dead", "Wall"}
                       => props'[i].state.tag # "Live"
                 /\ props[i].state = Dead => props'[i].state = Dead
                 /\ (IsSome(props'[i].parent) /\ props'[i].parent # props[i].parent)
                       => props[i].state = StateNone /\ props'[i].state = Live(0) ]_vars
    /\ [](\A i \in Sites :
              props[i].state.tag = "Path" => Adjacent(i, props[i].state.arg))

\* After a step, a Dead site, a Path site and the Live child it points to.
C20_Witness ==
    /\ lastOp = "iterate" /\ ret = Some(TRUE)
    /\ \E i, j \in Sites :
          /\ props[i].state = Dead
          /\ props[j].state.tag = "Path"
          /\ props[props[j].state.arg].state.tag = "Live"
          /\ props[props[j].state.arg].parent = Some(j)

====
